---- MODULE Spec2Model ----
(***************************************************************************)
(* Checkout / order / payment state machine of the ABFRL retail backend:   *)
(* backend/checkout_service.py (CheckoutService), backend/payment_gateway  *)
(* .py (PaymentGateway) and the cart / order / admin routes of             *)
(* backend/main.py, over the tables of backend/db.py.                      *)
(*                                                                         *)
(* Every request owns one SQLAlchemy session (expire_on_commit is left at  *)
(* its default, autoflush is off).  A handler that commits more than once, *)
(* or that calls the gateway between a read and a commit, is split at      *)
(* those points: what it read before the split is kept in its request      *)
(* record, what it writes is applied at the commit.  Requests of different *)
(* server workers interleave at these points.                              *)
(*                                                                         *)
(* Money: prices and stored DECIMAL(10,2) columns are integers in cents.   *)
(* The floats of calculate_order_totals are exact rationals here: an       *)
(* amount is e4 + n160/160 in units of 1/10000 of a currency unit.         *)
(***************************************************************************)
EXTENDS Integers, Sequences, FiniteSets, TLC

Users == 1..2
Products == 1..2
Slots == 1..2

\* bounds of the model
MaxOrders == 1
MaxRaceOrders == 2
MaxQty == 2
MaxStock == 2
MaxGatewayCalls == 3

VARIABLES
    stock,      \* products.stock, by product id
    price,      \* products.price in cents, by product id
    loyalty,    \* users.loyalty_score, by user id
    cart,       \* carts rows of each user, in insertion order
    orders,     \* orders rows (with their order_items), order id = index
    charges,    \* calls of PaymentGateway.process_payment, in order
    refunds,    \* calls of PaymentGateway.refund_payment, in order
    reqs,       \* the request in flight in each worker slot
    resp        \* the response of the request that returned last

vars == <<stock, price, loyalty, cart, orders, charges, refunds, reqs, resp>>

----------------------------------------------------------------------------
\* Generic helpers

RECURSIVE SumSeq(_)
SumSeq(s) == IF s = <<>> THEN 0 ELSE Head(s) + SumSeq(Tail(s))

\* quantities of the lines of `lines` that are for product p, summed
QtyOf(lines, p) ==
    SumSeq([i \in 1..Len(lines) |->
                IF lines[i].product = p THEN lines[i].quantity ELSE 0])

OrderIds == 1..Len(orders)

----------------------------------------------------------------------------
\* PaymentStatus / PaymentMethod enums and the gateway

PaymentStatus_SUCCESS == "success"
PaymentStatus_FAILED == "failed"
PaymentStatus_REFUNDED == "refunded"

get_supported_payment_methods ==
    {"credit_card", "debit_card", "net_banking", "upi", "wallet"}

\* min_amount and max_amount of the catalog get_supported_payment_methods
\* returns, in cents
method_amount_bounds ==
    [credit_card |-> [min_amount |-> 1000, max_amount |-> 5000000],
     debit_card |-> [min_amount |-> 1000, max_amount |-> 2500000],
     net_banking |-> [min_amount |-> 10000, max_amount |-> 10000000],
     upi |-> [min_amount |-> 100, max_amount |-> 10000000],
     wallet |-> [min_amount |-> 100, max_amount |-> 5000000]]

\* card_details values: NoCard is None (or an empty dict, equally falsy).
\* card_details is a free-form Dict of the request: expiry tells what
\* int() makes of its expiry fields, "int" for a number, "TypeError" for a
\* value int() does not take (a JSON null, a list).
NoCard == [present |-> FALSE, fields |-> FALSE, number_len |-> 0,
           number_digits |-> FALSE, expiry |-> "int", month |-> 0,
           expired |-> FALSE, cvv_len |-> 0, cvv_digits |-> FALSE]
GoodCard == [present |-> TRUE, fields |-> TRUE, number_len |-> 16,
             number_digits |-> TRUE, expiry |-> "int", month |-> 12,
             expired |-> FALSE, cvv_len |-> 3, cvv_digits |-> TRUE]
ShortCard == [GoodCard EXCEPT !.number_len = 15]
ExpiredCard == [GoodCard EXCEPT !.expired = TRUE]
NullExpiryCard == [GoodCard EXCEPT !.expiry = "TypeError"]
Cards == {NoCard, GoodCard, ShortCard, ExpiredCard, NullExpiryCard}

\* PaymentGateway.validate_card_details: "ok", the reason it returns, or
\* "TypeError" for the exception int() raises, which its except ValueError
\* does not catch
validate_card_details(c) ==
    IF ~c.fields THEN "Missing required field"
    ELSE IF ~c.number_digits \/ c.number_len # 16 THEN "Invalid card number format"
    ELSE IF c.expiry = "TypeError" THEN "TypeError"
    ELSE IF ~(1 <= c.month /\ c.month <= 12) THEN "Invalid expiry month"
    ELSE IF c.expired THEN "Card has expired"
    ELSE IF ~c.cvv_digits \/ ~(3 <= c.cvv_len /\ c.cvv_len <= 4) THEN "Invalid CVV format"
    ELSE "ok"

\* the random draw of PaymentGateway.process_payment
GatewayOutcomes == {"success", "declined", "timeout"}

\* gateway_process_payment with a transaction id generated only for a
\* successful payment
gateway_process_payment_NoIdOnFailure(amount, method, card, outcome, txn) ==
    IF amount <= 0
        THEN [status |-> PaymentStatus_FAILED, transaction_id |-> 0]
    ELSE IF method \notin get_supported_payment_methods
        THEN [status |-> PaymentStatus_FAILED, transaction_id |-> 0]
    ELSE IF method \in {"credit_card", "debit_card"} /\ card.present
            /\ validate_card_details(card) # "ok"
        THEN [status |-> PaymentStatus_FAILED, transaction_id |-> 0]
    ELSE IF outcome = "success"
        THEN [status |-> PaymentStatus_SUCCESS, transaction_id |-> txn]
    ELSE [status |-> PaymentStatus_FAILED, transaction_id |-> 0]

\* PaymentGateway.process_payment: amount in cents, txn the id it would
\* generate; transaction_id 0 is None
gateway_process_payment(amount, method, card, outcome, txn) ==
    IF amount <= 0
        THEN [status |-> PaymentStatus_FAILED, transaction_id |-> 0]
    ELSE IF method \notin get_supported_payment_methods
        THEN [status |-> PaymentStatus_FAILED, transaction_id |-> 0]
    ELSE IF method \in {"credit_card", "debit_card"} /\ card.present
            /\ validate_card_details(card) # "ok"
        THEN [status |-> PaymentStatus_FAILED, transaction_id |-> 0]
    ELSE IF outcome = "success"
        THEN [status |-> PaymentStatus_SUCCESS, transaction_id |-> txn]
    ELSE [status |-> PaymentStatus_FAILED, transaction_id |-> txn]

\* the random draw of PaymentGateway.refund_payment
RefundOutcomes == {"refunded", "failed"}

\* PaymentGateway.refund_payment: a transaction id the gateway issued starts
\* with "TXN-", None (0) does not
refund_payment(transaction_id, amount, outcome) ==
    IF transaction_id = 0 THEN PaymentStatus_FAILED
    ELSE IF amount <= 0 THEN PaymentStatus_FAILED
    ELSE IF outcome = "refunded" THEN PaymentStatus_REFUNDED
    ELSE PaymentStatus_FAILED

----------------------------------------------------------------------------
\* CheckoutService.validate_cart_items

\* LineValid with a line refused when it asks for all the stock there is
LineValid_StockLeftOver(line) ==
    line.product \in Products /\ ~(stock[line.product] <= line.quantity)

\* a cart line is valid when its product exists and has the stock for it
LineValid(line) == line.product \in Products /\ ~(stock[line.product] < line.quantity)

RECURSIVE ValidItems(_)
ValidItems(lines) ==
    IF lines = <<>> THEN <<>>
    ELSE LET l == Head(lines) IN
         IF LineValid(l)
            THEN <<[product |-> l.product, quantity |-> l.quantity,
                    unit_price |-> price[l.product],
                    total_price |-> price[l.product] * l.quantity,
                    stock_read |-> stock[l.product]]>> \o ValidItems(Tail(lines))
            ELSE ValidItems(Tail(lines))

RECURSIVE InvalidItems(_)
InvalidItems(lines) ==
    IF lines = <<>> THEN <<>>
    ELSE LET l == Head(lines) IN
         IF LineValid(l) THEN InvalidItems(Tail(lines))
         ELSE <<l>> \o InvalidItems(Tail(lines))

validate_cart_items(u) ==
    LET valid == ValidItems(cart[u]) IN
    [valid_items |-> valid,
     invalid_items |-> InvalidItems(cart[u]),
     total_amount |-> SumSeq([i \in 1..Len(valid) |-> valid[i].total_price]),
     item_count |-> SumSeq([i \in 1..Len(valid) |-> valid[i].quantity])]

----------------------------------------------------------------------------
\* CheckoutService.calculate_order_totals

Amount(e4, n160) == [e4 |-> e4, n160 |-> n160]

\* the amount of opposite sign
Negated(a) == IF a.n160 = 0 THEN Amount(0 - a.e4, 0)
              ELSE Amount(0 - a.e4 - 1, 160 - a.n160)

\* value stored in a DECIMAL(10,2) column, in cents (half rounds away from
\* zero)
Round2(a) ==
    IF a.e4 >= 0
        THEN (a.e4 \div 100) + (IF (a.e4 % 100) * 160 + a.n160 >= 8000 THEN 1 ELSE 0)
    ELSE LET b == Negated(a)
         IN 0 - ((b.e4 \div 100) + (IF (b.e4 % 100) * 160 + b.n160 >= 8000 THEN 1 ELSE 0))

\* int(amount / 10): whole tens of currency units, truncated towards zero
TensOf(a) == IF a.e4 >= 0 THEN a.e4 \div 100000
             ELSE 0 - (Negated(a).e4 \div 100000)

\* calculate_order_totals with the tax charged on the subtotal, before the
\* discount is taken off
calculate_order_totals_TaxOnSubtotal(subtotal, loyalty_score) ==
    LET discount_pct == IF loyalty_score > 1000 THEN 10
                        ELSE IF loyalty_score > 500 THEN 5 ELSE 0
        discount_e4 == subtotal * discount_pct
        taxable_e4 == subtotal * 100 - discount_e4
        tax_n == subtotal * 20 * 71
        tax == Amount(tax_n \div 160, tax_n % 160)
        shipping_e4 == IF taxable_e4 > 10000000 THEN 0 ELSE 1990000
    IN [subtotal |-> Amount(subtotal * 100, 0),
        discount_amount |-> Amount(discount_e4, 0),
        discount_rate |-> discount_pct,
        tax_amount |-> tax,
        shipping_amount |-> Amount(shipping_e4, 0),
        final_amount |-> Amount(taxable_e4 + tax.e4 + shipping_e4, tax.n160)]

\* calculate_order_totals with the tiers starting at 1000 and 500, not above
calculate_order_totals_TiersFromBound(subtotal, loyalty_score) ==
    LET discount_pct == IF loyalty_score >= 1000 THEN 10
                        ELSE IF loyalty_score >= 500 THEN 5 ELSE 0
        discount_e4 == subtotal * discount_pct
        taxable_e4 == subtotal * 100 - discount_e4
        tax_n == subtotal * ((100 - discount_pct) \div 5) * 71
        tax == Amount(tax_n \div 160, tax_n % 160)
        shipping_e4 == IF taxable_e4 > 10000000 THEN 0 ELSE 1990000
    IN [subtotal |-> Amount(subtotal * 100, 0),
        discount_amount |-> Amount(discount_e4, 0),
        discount_rate |-> discount_pct,
        tax_amount |-> tax,
        shipping_amount |-> Amount(shipping_e4, 0),
        final_amount |-> Amount(taxable_e4 + tax.e4 + shipping_e4, tax.n160)]

\* subtotal in cents
calculate_order_totals(subtotal, loyalty_score) ==
    LET discount_pct == IF loyalty_score > 1000 THEN 10
                        ELSE IF loyalty_score > 500 THEN 5 ELSE 0
        discount_e4 == subtotal * discount_pct
        taxable_e4 == subtotal * 100 - discount_e4
        \* 0.08875 = 71/800;  taxable_e4 = subtotal * (100 - pct), 5 | (100 - pct)
        tax_n == subtotal * ((100 - discount_pct) \div 5) * 71
        tax == Amount(tax_n \div 160, tax_n % 160)
        shipping_e4 == IF taxable_e4 > 10000000 THEN 0 ELSE 1990000
    IN [subtotal |-> Amount(subtotal * 100, 0),
        discount_amount |-> Amount(discount_e4, 0),
        discount_rate |-> discount_pct,
        tax_amount |-> tax,
        shipping_amount |-> Amount(shipping_e4, 0),
        final_amount |-> Amount(taxable_e4 + tax.e4 + shipping_e4, tax.n160)]

----------------------------------------------------------------------------
\* Requests in flight and responses

Idle == [kind |-> "idle", user |-> 0, order |-> 0, lines |-> <<>>,
         loyalty_read |-> 0, points |-> 0]

\* the "totals" of a response that has none
NoTotals == calculate_order_totals(0, 0)

\* resp is the response of the step just taken, NoResp when the step returned
\* none.  order, success, error, error_type, status, transaction_id and refund
\* are the fields of the returned dict (refund is refund_result's status), as
\* is totals, the dict of calculate_order_totals in the checkout preview;
\* op, user and created are not part of it: the operation, its caller and
\* the id of the order the request stored before it returned (0 for none).
NoResp == [op |-> "none", user |-> 0, order |-> 0, success |-> FALSE,
           error |-> "", error_type |-> "", status |-> "",
           transaction_id |-> 0, refund |-> "none", created |-> 0,
           totals |-> NoTotals]

Response(op, u, o, ok, err, etype) ==
    [NoResp EXCEPT !.op = op, !.user = u, !.order = o, !.success = ok,
                   !.error = err, !.error_type = etype]

\* whether the model lets one more order be created under the limit `limit`:
\* those stored and those a request in flight is about to store count
Creating == {s \in Slots : reqs[s].kind = "checkout_validated"}
RoomForOrder(limit) == Len(orders) + Cardinality(Creating) < limit

InitStock == [p \in Products |-> IF p = 1 THEN 2 ELSE 1]
InitPrice == [p \in Products |-> IF p = 1 THEN 60000 ELSE 45000]
InitLoyalty == [u \in Users |-> IF u = 1 THEN 450 ELSE 950]

Init ==
    /\ stock = InitStock
    /\ price = InitPrice
    /\ loyalty = InitLoyalty
    /\ cart = [u \in Users |-> <<>>]
    /\ orders = <<>>
    /\ charges = <<>>
    /\ refunds = <<>>
    /\ reqs = [s \in Slots |-> Idle]
    /\ resp = NoResp


----------------------------------------------------------------------------
\* Cart routes (main.py)

FirstLineOf(lines, p) ==
    LET idx == {i \in 1..Len(lines) : lines[i].product = p}
    IN IF idx = {} THEN 0 ELSE CHOOSE i \in idx : \A j \in idx : i <= j

\* POST /cart
add_to_cart(u, p, q) ==
    /\ IF stock[p] < q
          THEN /\ resp' = NoResp
               /\ UNCHANGED cart
          ELSE LET i == FirstLineOf(cart[u], p) IN
               /\ IF i # 0
                     THEN /\ cart[u][i].quantity + q <= MaxQty
                          /\ cart' = [cart EXCEPT ![u][i].quantity = @ + q]
                     ELSE cart' = [cart EXCEPT ![u] = Append(@, [product |-> p, quantity |-> q])]
               /\ resp' = NoResp
    /\ UNCHANGED <<stock, price, loyalty, orders, charges, refunds, reqs>>

\* POST /cart served by a worker while other requests run: the stock check and
\* the query for the user's row of the product, then the write and its commit.
\* The request keeps the row it found (row, 0 for none) and the quantity it
\* loaded from it; the write is the UPDATE of that row with the sum computed
\* from the loaded quantity, or the INSERT of a new row.  The carts table has
\* no unique constraint on (user_id, product_id).
add_to_cart_read(s, u, p, q) ==
    /\ reqs[s] = Idle
    /\ IF stock[p] < q
          THEN UNCHANGED reqs
          ELSE LET i == FirstLineOf(cart[u], p)
                   loaded == IF i # 0 THEN cart[u][i].quantity ELSE 0
               IN /\ loaded + q <= MaxQty
                  /\ reqs' = [reqs EXCEPT ![s] =
                        [Idle EXCEPT !.kind = "cart_read", !.user = u,
                                     !.lines = <<[product |-> p, quantity |-> q,
                                                  row |-> i, row_quantity |-> loaded]>>]]
    /\ resp' = NoResp
    /\ UNCHANGED <<stock, price, loyalty, cart, orders, charges, refunds>>

add_to_cart_write(s) ==
    /\ reqs[s].kind = "cart_read"
    /\ LET u == reqs[s].user
           l == reqs[s].lines[1]
       IN IF l.row # 0
             THEN cart' = [cart EXCEPT ![u][l.row].quantity = l.row_quantity + l.quantity]
             ELSE cart' = [cart EXCEPT ![u] = Append(@, [product |-> l.product,
                                                         quantity |-> l.quantity])]
    /\ reqs' = [reqs EXCEPT ![s] = Idle]
    /\ resp' = NoResp
    /\ UNCHANGED <<stock, price, loyalty, orders, charges, refunds>>

\* PUT /cart/{cart_item_id}, DELETE /cart/{cart_item_id}, DELETE /cart.
\* The body of the PUT is a free-form dict: its quantity is any JSON number,
\* given here in tenths (4 is 0.4, 10 is 1); a missing quantity is 0.

\* the value PostgreSQL stores in an INTEGER column for the positive number
\* q10 / 10: the nearest integer
integer_column(q10) == (q10 + 5) \div 10

\* i is the user's i-th cart row; a cart_item_id of another user's row or of
\* no row is an i outside the user's cart
update_cart_item(u, i, q10) ==
    /\ IF q10 <= 0
          THEN /\ resp' = Response("update_cart_item", u, 0, FALSE, "Invalid quantity", "http_400")
               /\ UNCHANGED cart
       ELSE IF i \notin 1..Len(cart[u])
          THEN /\ resp' = Response("update_cart_item", u, 0, FALSE, "Cart item not found", "http_404")
               /\ UNCHANGED cart
       ELSE IF stock[cart[u][i].product] * 10 < q10
          THEN /\ resp' = Response("update_cart_item", u, 0, FALSE, "Insufficient stock", "http_400")
               /\ UNCHANGED cart
       ELSE /\ cart' = [cart EXCEPT ![u][i].quantity = integer_column(q10)]
            /\ resp' = Response("update_cart_item", u, 0, TRUE, "", "")
    /\ UNCHANGED <<stock, price, loyalty, orders, charges, refunds, reqs>>

remove_cart_item(u, i) ==
    /\ IF i \notin 1..Len(cart[u])
          THEN /\ resp' = Response("remove_cart_item", u, 0, FALSE, "Cart item not found", "http_404")
               /\ UNCHANGED cart
          ELSE /\ cart' = [cart EXCEPT ![u] =
                        [j \in 1..(Len(@) - 1) |-> IF j < i THEN @[j] ELSE @[j + 1]]]
               /\ resp' = Response("remove_cart_item", u, 0, TRUE, "", "")
    /\ UNCHANGED <<stock, price, loyalty, orders, charges, refunds, reqs>>

clear_cart(u) ==
    /\ cart' = [cart EXCEPT ![u] = <<>>]
    /\ resp' = Response("clear_cart", u, 0, TRUE, "", "")
    /\ UNCHANGED <<stock, price, loyalty, orders, charges, refunds, reqs>>

----------------------------------------------------------------------------
\* CheckoutService.create_order and CheckoutService.process_payment

StripItem(l) == [product |-> l.product, quantity |-> l.quantity,
                 unit_price |-> l.unit_price, total_price |-> l.total_price]

\* NewOrder with the payment marked as in progress from the start
NewOrder_PaymentProcessing(u, order_number, totals, items) ==
    [user |-> u,
     order_number |-> order_number,
     items |-> items,
     total_amount |-> Round2(totals.subtotal),
     tax_amount |-> Round2(totals.tax_amount),
     shipping_amount |-> Round2(totals.shipping_amount),
     discount_amount |-> Round2(totals.discount_amount),
     final_amount |-> Round2(totals.final_amount),
     payment_status |-> "processing",
     order_status |-> "processing",
     transaction_id |-> 0,
     tracking_number |-> 0]

\* the Order row create_order builds, with the OrderItem rows `items`
NewOrder(u, order_number, totals, items) ==
    [user |-> u,
     order_number |-> order_number,
     items |-> items,
     total_amount |-> Round2(totals.subtotal),
     tax_amount |-> Round2(totals.tax_amount),
     shipping_amount |-> Round2(totals.shipping_amount),
     discount_amount |-> Round2(totals.discount_amount),
     final_amount |-> Round2(totals.final_amount),
     payment_status |-> "pending",
     order_status |-> "processing",
     transaction_id |-> 0,
     tracking_number |-> 0]

\* the value of product.stock the session holds for product p
StockRead(lines, p) == lines[FirstLineOf(lines, p)].stock_read

\* create_order_stock with one piece taken for each line, not its quantity
create_order_stock_OnePerLine(lines) ==
    [p \in Products |->
        IF FirstLineOf(lines, p) = 0 THEN stock[p]
        ELSE StockRead(lines, p) - Cardinality({i \in 1..Len(lines) : lines[i].product = p})]

\* products.stock after create_order's commit: product.stock -= quantity on
\* the Product objects validate_cart_items loaded
create_order_stock(lines) ==
    [p \in Products |->
        IF FirstLineOf(lines, p) = 0 THEN stock[p]
        ELSE StockRead(lines, p) - QtyOf(lines, p)]

\* process_payment_check without the validation of the card details
process_payment_check_CardsUnchecked(method, card) ==
    IF method \notin get_supported_payment_methods
        THEN "Unsupported payment method"
    ELSE IF method \in {"credit_card", "debit_card"} /\ ~card.present
        THEN "Card details required for card payments"
    ELSE "ok"

\* checks of process_payment before the gateway is called: "ok", the
\* CheckoutError it raises, or "TypeError" for the exception that comes out
\* of the gateway's validate_card_details
process_payment_check(method, card) ==
    IF method \notin get_supported_payment_methods
        THEN "Unsupported payment method"
    ELSE IF method \in {"credit_card", "debit_card"} /\ ~card.present
        THEN "Card details required for card payments"
    ELSE IF card.present /\ validate_card_details(card) = "TypeError"
        THEN "TypeError"
    ELSE IF card.present /\ validate_card_details(card) # "ok"
        THEN "Invalid card details"
    ELSE "ok"

\* order_after_payment with the order confirmed as soon as the gateway issued a
\* transaction id, whatever its answer
order_after_payment_ConfirmedOnTransaction(ord, gw) ==
    [ord EXCEPT
        !.payment_status = IF gw.status = PaymentStatus_SUCCESS THEN "paid" ELSE gw.status,
        !.transaction_id = IF gw.transaction_id # 0 THEN gw.transaction_id ELSE @,
        !.order_status = IF gw.transaction_id # 0 THEN "confirmed" ELSE @]

\* order_after_payment with the transaction id recorded for a successful
\* payment only
order_after_payment_IdOnSuccessOnly(ord, gw) ==
    [ord EXCEPT
        !.payment_status = IF gw.status = PaymentStatus_SUCCESS THEN "paid" ELSE gw.status,
        !.transaction_id = IF gw.status = PaymentStatus_SUCCESS THEN gw.transaction_id ELSE @,
        !.order_status = IF gw.status = PaymentStatus_SUCCESS THEN "confirmed" ELSE @]

\* the order after process_payment recorded the gateway's answer gw
order_after_payment(ord, gw) ==
    [ord EXCEPT
        !.payment_status = IF gw.status = PaymentStatus_SUCCESS THEN "paid" ELSE gw.status,
        !.transaction_id = IF gw.transaction_id # 0 THEN gw.transaction_id ELSE @,
        !.order_status = IF gw.status = PaymentStatus_SUCCESS THEN "confirmed" ELSE @]

\* the except clause that closes process_payment: whatever was raised in its
\* body, a CheckoutError of its own checks included, leaves it as a
\* CheckoutError
process_payment_raises(e) == "CheckoutError"

\* the except clauses of complete_checkout: the error_type it reports for an
\* exception of class exc
complete_checkout_error_type(exc) ==
    IF exc = "CheckoutError" THEN "checkout_error" ELSE "system_error"

\* the dict process_payment returns
payment_result(op, u, o, gw) ==
    [NoResp EXCEPT !.op = op, !.user = u, !.order = o,
                   !.success = (gw.status = PaymentStatus_SUCCESS),
                   !.status = gw.status,
                   !.transaction_id = gw.transaction_id]

ChargeRecord(o, amount, gw) ==
    [order |-> o, amount |-> amount,
     status |-> gw.status, transaction_id |-> gw.transaction_id]

\* payment methods the requests of the model name: a card method and another
\* supported one, which the routes accept (CheckoutRequest, PaymentRequest),
\* and one that is not supported, which only a direct call can pass
RouteMethods == {"credit_card", "net_banking", "upi"}
PaymentMethods == RouteMethods \cup {"crypto"}

----------------------------------------------------------------------------
\* CheckoutService.complete_checkout (POST /checkout)

\* cart_after_payment with the cart deleted whatever the payment result
cart_after_payment_AlwaysCleared(u, gw) == [cart EXCEPT ![u] = <<>>]

\* cart_after_payment with the lines that went into the order deleted and
\* the invalid ones kept
cart_after_payment_KeepsInvalidLines(u, gw) ==
    IF gw.status = PaymentStatus_SUCCESS
        THEN [cart EXCEPT ![u] = InvalidItems(@)]
        ELSE cart

\* the carts once complete_checkout has the payment result: the user's cart is
\* deleted only if the payment was successful
cart_after_payment(u, gw) ==
    IF gw.status = PaymentStatus_SUCCESS THEN [cart EXCEPT ![u] = <<>>] ELSE cart

\* complete_checkout_validate with a cart that has no valid line deleted when
\* the checkout is refused
complete_checkout_validate_DropsInvalidCart(s, u) ==
    /\ reqs[s] = Idle
    /\ LET v == validate_cart_items(u) IN
       IF cart[u] = <<>>
          THEN /\ resp' = Response("complete_checkout", u, 0, FALSE, "Cart is empty", "checkout_error")
               /\ UNCHANGED <<reqs, cart>>
       ELSE IF v.valid_items = <<>>
          THEN /\ resp' = Response("complete_checkout", u, 0, FALSE, "No valid items in cart", "checkout_error")
               /\ cart' = [cart EXCEPT ![u] = <<>>]
               /\ UNCHANGED reqs
       ELSE /\ reqs' = [reqs EXCEPT ![s] =
                    [kind |-> "checkout_validated", user |-> u, order |-> 0,
                     lines |-> v.valid_items, loyalty_read |-> loyalty[u],
                     points |-> 0]]
            /\ resp' = NoResp
            /\ UNCHANGED cart
    /\ UNCHANGED <<stock, price, loyalty, orders, charges, refunds>>

\* steps 1 and 2: validate_cart_items, calculate_order_totals
complete_checkout_validate(s, u) ==
    /\ reqs[s] = Idle
    /\ LET v == validate_cart_items(u) IN
       IF cart[u] = <<>>
          THEN /\ resp' = Response("complete_checkout", u, 0, FALSE, "Cart is empty", "checkout_error")
               /\ UNCHANGED reqs
       ELSE IF v.valid_items = <<>>
          THEN /\ resp' = Response("complete_checkout", u, 0, FALSE, "No valid items in cart", "checkout_error")
               /\ UNCHANGED reqs
       ELSE /\ reqs' = [reqs EXCEPT ![s] =
                    [kind |-> "checkout_validated", user |-> u, order |-> 0,
                     lines |-> v.valid_items, loyalty_read |-> loyalty[u],
                     points |-> 0]]
            /\ resp' = NoResp
    /\ UNCHANGED <<stock, price, loyalty, cart, orders, charges, refunds>>

\* UniqueNumber without the unique index on orders.order_number
UniqueNumber_NoIndex(n) == TRUE

\* the unique index on orders.order_number lets a row with number n in
UniqueNumber(n) == \A o \in OrderIds : orders[o].order_number # n

\* step 3: create_order, up to and including its commit, with n the order
\* number create_order generates: the flush of the
\* Order row fails on a number that is taken, the exception leaves
\* create_order and complete_checkout rolls back and reports it
complete_checkout_create_order_numbered(s, n) ==
    /\ reqs[s].kind = "checkout_validated"
    /\ LET r == reqs[s]
           subtotal == SumSeq([i \in 1..Len(r.lines) |-> r.lines[i].total_price])
           totals == calculate_order_totals(subtotal, r.loyalty_read)
           items == [i \in 1..Len(r.lines) |-> StripItem(r.lines[i])]
       IN IF ~UniqueNumber(n)
             THEN /\ resp' = Response("complete_checkout", r.user, 0, FALSE, "IntegrityError",
                                      complete_checkout_error_type("IntegrityError"))
                  /\ reqs' = [reqs EXCEPT ![s] = Idle]
                  /\ UNCHANGED <<orders, stock, loyalty>>
             ELSE /\ orders' = Append(orders, NewOrder(r.user, n, totals, items))
                  /\ stock' = create_order_stock(r.lines)
                  /\ loyalty' = [loyalty EXCEPT ![r.user] =
                                    r.loyalty_read + TensOf(totals.final_amount)]
                  /\ reqs' = [reqs EXCEPT ![s] =
                          [Idle EXCEPT !.kind = "checkout_created", !.user = r.user,
                                       !.order = Len(orders) + 1]]
                  /\ resp' = NoResp
    /\ UNCHANGED <<price, cart, charges, refunds>>

\* step 3 with a number no stored order has (eight hexadecimal digits of a
\* uuid4: two draws are equal once in 2^32): the Len(orders) + 1-th number
complete_checkout_create_order(s) ==
    complete_checkout_create_order_numbered(s, Len(orders) + 1)

\* step 4 for a request with payment_method method and card_details card:
\* process_payment, then the cart is cleared on success
complete_checkout_payment_with(s, method, card) ==
    /\ reqs[s].kind = "checkout_created"
    /\ LET r == reqs[s]
            o == r.order
            check == process_payment_check(method, card)
        IN IF check # "ok"
              THEN /\ resp' = [Response("complete_checkout", r.user, 0, FALSE, check,
                                         complete_checkout_error_type(process_payment_raises(check)))
                                EXCEPT !.created = o]
                   /\ UNCHANGED <<orders, charges, cart>>
              ELSE \E outcome \in GatewayOutcomes :
                   LET gw == gateway_process_payment(orders[o].final_amount, method,
                                                     card, outcome, Len(charges) + 1)
                   IN
                   /\ charges' = Append(charges, ChargeRecord(o, orders[o].final_amount, gw))
                   /\ orders' = [orders EXCEPT ![o] = order_after_payment(@, gw)]
                   /\ cart' = cart_after_payment(r.user, gw)
                   /\ resp' = [payment_result("complete_checkout", r.user, o, gw)
                                EXCEPT !.created = o]
    /\ reqs' = [reqs EXCEPT ![s] = Idle]
    /\ UNCHANGED <<stock, price, loyalty, refunds>>

complete_checkout_payment(s) ==
    \E method \in PaymentMethods, card \in Cards :
        complete_checkout_payment_with(s, method, card)

----------------------------------------------------------------------------
\* GET /cart/checkout-preview (main.py get_checkout_preview)

\* get_checkout_preview with the loyalty points of the previewed order
\* credited, as create_order credits them
get_checkout_preview_AccruesLoyalty(u) ==
    /\ LET v == validate_cart_items(u)
           totals == calculate_order_totals(v.total_amount, loyalty[u])
       IN IF cart[u] = <<>> \/ v.valid_items = <<>>
             THEN /\ resp' = Response("preview", u, 0, FALSE, "No valid items in cart", "")
                  /\ UNCHANGED loyalty
             ELSE /\ resp' = [Response("preview", u, 0, TRUE, "", "") EXCEPT !.totals = totals]
                  /\ loyalty' = [loyalty EXCEPT ![u] = @ + TensOf(totals.final_amount)]
    /\ UNCHANGED <<stock, price, cart, orders, charges, refunds, reqs>>

\* validate_cart_items, then calculate_order_totals for the valid lines
get_checkout_preview(u) ==
    /\ LET v == validate_cart_items(u) IN
       IF cart[u] = <<>>
          THEN resp' = Response("preview", u, 0, FALSE, "Cart is empty", "http_500")
       ELSE IF v.valid_items = <<>>
          THEN resp' = Response("preview", u, 0, FALSE, "No valid items in cart", "")
       ELSE resp' = [Response("preview", u, 0, TRUE, "", "")
                        EXCEPT !.totals = calculate_order_totals(v.total_amount, loyalty[u])]
    /\ UNCHANGED <<stock, price, loyalty, cart, orders, charges, refunds, reqs>>

----------------------------------------------------------------------------
\* POST /orders (main.py create_order)

legacy_order_totals(subtotal, loyalty_score) ==
    LET discount_pct == IF loyalty_score > 1000 THEN 10 ELSE 0
        discount_e4 == subtotal * discount_pct
        taxable_e4 == subtotal * 100 - discount_e4
        tax_n == subtotal * ((100 - discount_pct) \div 5) * 71
        tax == Amount(tax_n \div 160, tax_n % 160)
        shipping_e4 == IF taxable_e4 > 1000000 THEN 0 ELSE 150000
    IN [subtotal |-> Amount(subtotal * 100, 0),
        discount_amount |-> Amount(discount_e4, 0),
        discount_rate |-> discount_pct,
        tax_amount |-> tax,
        shipping_amount |-> Amount(shipping_e4, 0),
        final_amount |-> Amount(taxable_e4 + tax.e4 + shipping_e4, tax.n160)]

\* the stock check over the cart and the first commit, which stores the Order
post_orders_begin(s, u) ==
    /\ reqs[s] = Idle
    /\ IF cart[u] = <<>>
          THEN /\ resp' = Response("post_orders", u, 0, FALSE, "Cart is empty", "http_400")
               /\ UNCHANGED <<orders, reqs>>
       ELSE IF \E i \in 1..Len(cart[u]) : ~LineValid(cart[u][i])
          THEN /\ resp' = Response("post_orders", u, 0, FALSE, "Insufficient stock", "http_400")
               /\ UNCHANGED <<orders, reqs>>
       ELSE LET data == ValidItems(cart[u])
                subtotal == SumSeq([i \in 1..Len(data) |-> data[i].total_price])
                totals == legacy_order_totals(subtotal, loyalty[u])
            IN /\ orders' = Append(orders, NewOrder(u, Len(orders) + 1, totals, <<>>))
               /\ reqs' = [reqs EXCEPT ![s] =
                       [kind |-> "orders_committed", user |-> u,
                        order |-> Len(orders) + 1,
                        lines |-> [i \in 1..Len(data) |-> StripItem(data[i])],
                        loyalty_read |-> 0,
                        points |-> TensOf(totals.final_amount)]]
               /\ resp' = NoResp
    /\ UNCHANGED <<stock, price, loyalty, cart, charges, refunds>>

\* the OrderItems, the stock decrements on re-read products, the cart delete
\* and the loyalty update, and the second commit
post_orders_finish(s) ==
    /\ reqs[s].kind = "orders_committed"
    /\ LET r == reqs[s] IN
        /\ orders' = [orders EXCEPT ![r.order].items = r.lines]
        /\ stock' = [p \in Products |-> stock[p] - QtyOf(r.lines, p)]
        /\ cart' = [cart EXCEPT ![r.user] = <<>>]
        /\ loyalty' = [loyalty EXCEPT ![r.user] = @ + r.points]
        /\ resp' = [Response("post_orders", r.user, r.order, TRUE, "", "")
                        EXCEPT !.created = r.order]
    /\ reqs' = [reqs EXCEPT ![s] = Idle]
    /\ UNCHANGED <<price, charges, refunds>>

----------------------------------------------------------------------------
\* POST /orders/{order_id}/pay (main.py process_payment)

\* OwnedBy with the filter on the user left out
OwnedBy_AnyUser(o, u) == o \in OrderIds

\* get_order_details: the order, if it is the user's
OwnedBy(o, u) == o \in OrderIds /\ orders[o].user = u

\* PaymentPending with an order whose payment failed let through as well
PaymentPending_OrFailed(o) == orders[o].payment_status \in {"pending", "failed"}

\* the payment_status check of the pay route
PaymentPending(o) == orders[o].payment_status = "pending"

pay_route_begin(s, u, o) ==
    /\ reqs[s] = Idle
    /\ IF ~OwnedBy(o, u)
          THEN /\ resp' = Response("pay", u, o, FALSE, "Order not found", "http_500")
               /\ UNCHANGED reqs
       ELSE IF ~PaymentPending(o)
          THEN /\ resp' = Response("pay", u, o, FALSE, "Payment already processed", "http_500")
               /\ UNCHANGED reqs
       ELSE /\ reqs' = [reqs EXCEPT ![s] =
                    [Idle EXCEPT !.kind = "pay_checked", !.user = u, !.order = o]]
            /\ resp' = NoResp
    /\ UNCHANGED <<stock, price, loyalty, cart, orders, charges, refunds>>

\* the call of process_payment for a PaymentRequest with payment_method
\* method and card_details card
pay_route_gateway_with(s, method, card) ==
    /\ reqs[s].kind = "pay_checked"
    /\ LET r == reqs[s]
            o == r.order
            check == process_payment_check(method, card)
        IN IF check # "ok"
              THEN /\ resp' = Response("pay", r.user, o, FALSE, check, "http_400")
                   /\ UNCHANGED <<orders, charges>>
              ELSE \E outcome \in GatewayOutcomes :
                   LET gw == gateway_process_payment(orders[o].final_amount, method,
                                                     card, outcome, Len(charges) + 1)
                   IN
                   /\ charges' = Append(charges, ChargeRecord(o, orders[o].final_amount, gw))
                   /\ orders' = [orders EXCEPT ![o] = order_after_payment(@, gw)]
                   /\ resp' = payment_result("pay", r.user, o, gw)
    /\ reqs' = [reqs EXCEPT ![s] = Idle]
    /\ UNCHANGED <<stock, price, loyalty, cart, refunds>>

pay_route_gateway(s) ==
    \E method \in RouteMethods, card \in Cards :
        pay_route_gateway_with(s, method, card)

----------------------------------------------------------------------------
\* Cancellation: CheckoutService.cancel_order and main.py cancel_order_route

\* restore_stock with one piece given back for each item, not its quantity
restore_stock_OnePerItem(items) ==
    [p \in Products |->
        stock[p] + Cardinality({i \in 1..Len(items) : items[i].product = p})]

\* products.stock after the stock of every OrderItem of the order is restored
restore_stock(items) == [p \in Products |-> stock[p] + QtyOf(items, p)]

\* repeated cancellations of a re-opened order raise stock without limit: the
\* model stops at MaxStock
StockRoom(items) == \A p \in Products : stock[p] + QtyOf(items, p) <= MaxStock

\* Cancellable with shipped orders let through
Cancellable_AlsoShipped(o) ==
    orders[o].order_status \in {"processing", "confirmed", "shipped"}

\* the order_status check of cancel_order and cancel_order_route
Cancellable(o) == orders[o].order_status \in {"processing", "confirmed"}

\* payment_status of an order cancel_order cancelled; refund_result is the
\* dict of the attempted refund, None when none was attempted
cancelled_payment_status(refund_attempted) ==
    IF refund_attempted THEN "refunded" ELSE "cancelled"

cancel_order(o, u) ==
    /\ IF ~OwnedBy(o, u)
          THEN /\ resp' = Response("cancel_order", u, o, FALSE, "Order not found", "checkout_error")
               /\ UNCHANGED <<orders, stock, refunds>>
       ELSE IF ~Cancellable(o)
          THEN /\ resp' = Response("cancel_order", u, o, FALSE,
                                   "Cannot cancel order in current status", "checkout_error")
               /\ UNCHANGED <<orders, stock, refunds>>
       ELSE \E outcome \in RefundOutcomes :
            LET attempted == orders[o].payment_status = "success"
                refund_status == refund_payment(orders[o].transaction_id,
                                                orders[o].final_amount, outcome)
            IN /\ StockRoom(orders[o].items)
               /\ refunds' = IF attempted
                                THEN Append(refunds,
                                        [order |-> o,
                                         transaction_id |-> orders[o].transaction_id,
                                         amount |-> orders[o].final_amount,
                                         status |-> refund_status])
                                ELSE refunds
               /\ orders' = [orders EXCEPT
                        ![o].order_status = "cancelled",
                        ![o].payment_status = cancelled_payment_status(attempted)]
               /\ stock' = restore_stock(orders[o].items)
               /\ resp' = [Response("cancel_order", u, o, TRUE, "", "")
                              EXCEPT !.refund = IF attempted THEN refund_status ELSE "none"]
    /\ UNCHANGED <<price, loyalty, cart, charges, reqs>>

cancel_order_route(o, u) ==
    /\ IF ~OwnedBy(o, u)
          THEN /\ resp' = Response("cancel_order_route", u, o, FALSE, "Order not found", "http_404")
               /\ UNCHANGED <<orders, stock>>
       ELSE IF ~Cancellable(o)
          THEN /\ resp' = Response("cancel_order_route", u, o, FALSE,
                                   "Cannot cancel order in current status", "http_400")
               /\ UNCHANGED <<orders, stock>>
       ELSE /\ StockRoom(orders[o].items)
            /\ orders' = [orders EXCEPT ![o].order_status = "cancelled",
                                        ![o].payment_status = "refunded"]
            /\ stock' = restore_stock(orders[o].items)
            /\ resp' = Response("cancel_order_route", u, o, TRUE, "", "")
    /\ UNCHANGED <<price, loyalty, cart, charges, refunds, reqs>>

----------------------------------------------------------------------------
\* PUT /admin/orders/{order_id} (main.py update_order_status)

OrderStatuses == {"processing", "confirmed", "shipped", "delivered", "cancelled"}

\* update_order_status with the tracking number written for every status
update_order_status_TracksAnyStatus(o, status, tracking) ==
    /\ IF o \notin OrderIds
          THEN /\ resp' = NoResp
               /\ UNCHANGED orders
          ELSE /\ orders' = [orders EXCEPT
                        ![o].order_status = status,
                        ![o].tracking_number = IF tracking # 0 THEN tracking ELSE @,
                        ![o].payment_status = IF status = "delivered" THEN "paid" ELSE @]
               /\ resp' = NoResp
    /\ UNCHANGED <<stock, price, loyalty, cart, charges, refunds, reqs>>

\* tracking 0 is no tracking_number parameter
update_order_status(o, status, tracking) ==
    /\ IF o \notin OrderIds
          THEN /\ resp' = NoResp
               /\ UNCHANGED orders
          ELSE /\ orders' = [orders EXCEPT
                        ![o].order_status = status,
                        ![o].tracking_number =
                            IF status = "shipped" /\ tracking # 0 THEN tracking ELSE @,
                        ![o].payment_status = IF status = "delivered" THEN "paid" ELSE @]
               /\ resp' = NoResp
    /\ UNCHANGED <<stock, price, loyalty, cart, charges, refunds, reqs>>

----------------------------------------------------------------------------
\* PUT /products/{product_id} (main.py update_product): every column of the
\* product is set from the request, price and stock among them

\* update_product with the new price carried over to the items of the orders
\* that hold the product
update_product_RepricesOrders(p, new_price, new_stock) ==
    /\ price' = [price EXCEPT ![p] = new_price]
    /\ stock' = [stock EXCEPT ![p] = new_stock]
    /\ orders' = [o \in OrderIds |->
            [orders[o] EXCEPT !.items =
                [i \in 1..Len(orders[o].items) |->
                    IF orders[o].items[i].product = p
                        THEN [orders[o].items[i] EXCEPT
                                !.unit_price = new_price,
                                !.total_price = new_price * orders[o].items[i].quantity]
                        ELSE orders[o].items[i]]]]
    /\ resp' = NoResp
    /\ UNCHANGED <<loyalty, cart, charges, refunds, reqs>>

update_product(p, new_price, new_stock) ==
    /\ price' = [price EXCEPT ![p] = new_price]
    /\ stock' = [stock EXCEPT ![p] = new_stock]
    /\ resp' = NoResp
    /\ UNCHANGED <<loyalty, cart, orders, charges, refunds, reqs>>

----------------------------------------------------------------------------
\* a worker stops in the middle of a request: what it committed stays, the
\* rest of the handler never runs
crash(s) ==
    /\ reqs[s] # Idle
    /\ reqs' = [reqs EXCEPT ![s] = Idle]
    /\ resp' = NoResp
    /\ UNCHANGED <<stock, price, loyalty, cart, orders, charges, refunds>>

----------------------------------------------------------------------------
\* a checkout of user u that would store an order
WouldCheckout(u) == ValidItems(cart[u]) # <<>>
WouldPostOrder(u) ==
    cart[u] # <<>> /\ \A i \in 1..Len(cart[u]) : LineValid(cart[u][i])

CartSteps(shoppers, products) ==
    \E u \in shoppers, p \in products, q \in 1..MaxQty : add_to_cart(u, p, q)

CheckoutSteps(slots, limit) ==
    \/ \E s \in slots, u \in Users :
            /\ WouldCheckout(u) => RoomForOrder(limit)
            /\ complete_checkout_validate(s, u)
    \/ \E s \in slots : complete_checkout_create_order(s)
    \/ \E s \in slots : complete_checkout_payment(s)

PostOrderSteps(slots, limit) ==
    \/ \E s \in slots, u \in Users :
            /\ WouldPostOrder(u) => RoomForOrder(limit)
            /\ post_orders_begin(s, u)
    \/ \E s \in slots : post_orders_finish(s)

PaySteps(slots, limit) ==
    \/ \E s \in slots, u \in Users, o \in 1..limit : pay_route_begin(s, u, o)
    \/ \E s \in slots : pay_route_gateway(s)

CancelSteps(limit) ==
    \/ \E u \in Users, o \in 1..limit : cancel_order(o, u)
    \/ \E u \in Users, o \in 1..limit : cancel_order_route(o, u)

AdminSteps(limit) ==
    \E o \in 1..limit, st \in OrderStatuses, t \in 0..1 : update_order_status(o, st, t)

\* The life of an order.  One worker serves the requests that take several
\* steps; the cart, cancel and admin requests run between its steps.  User 1
\* shops, user 2 calls the order routes too; MaxOrders orders are stored.
Shoppers == {1}
Worker == {1}

Next ==
    \/ CartSteps(Shoppers, Products)
    \/ CheckoutSteps(Worker, MaxOrders)
    \/ PostOrderSteps(Worker, MaxOrders)
    \/ PaySteps(Worker, MaxOrders)
    \/ CancelSteps(MaxOrders)
    \/ AdminSteps(MaxOrders)
    \/ \E s \in Worker : crash(s)

Spec == Init /\ [][Next]_vars

\* Concurrent checkouts.  Every worker of Slots serves requests, every user
\* shops, for the product of which one piece is in stock; MaxRaceOrders orders
\* are stored; no order is cancelled or touched by the admin, no worker stops.
RaceProducts == {2}

NextRace ==
    \/ CartSteps(Users, RaceProducts)
    \/ CheckoutSteps(Slots, MaxRaceOrders)
    \/ PostOrderSteps(Slots, MaxRaceOrders)
    \/ PaySteps(Slots, MaxRaceOrders)

SpecRace == Init /\ [][NextRace]_vars

\* Cancellation as a unit: cancel_order and cancel_order_route applied to a
\* stored order.  The orders table outlives the process and its status columns
\* are free strings: the order is any row create_order can have built, with
\* the payment_status values the code writes or tests and any order_status.
StoredPaymentStatuses ==
    {"pending", "paid", "success", "failed", "refunded", "cancelled"}

StoredItem(p, q) ==
    [product |-> p, quantity |-> q,
     unit_price |-> InitPrice[p], total_price |-> InitPrice[p] * q]

StoredItems ==
    {<<StoredItem(p, q)>> : p \in Products, q \in 1..MaxQty}
        \cup {<<StoredItem(1, q1), StoredItem(2, q2)>> : q1, q2 \in 1..MaxQty}

StoredOrder(u, items, payment_status, order_status, transaction_id) ==
    LET subtotal == SumSeq([i \in 1..Len(items) |-> items[i].total_price])
        totals == calculate_order_totals(subtotal, InitLoyalty[u])
    IN [NewOrder(u, 1, totals, items) EXCEPT
            !.payment_status = payment_status,
            !.order_status = order_status,
            !.transaction_id = transaction_id]

InitCancel ==
    /\ stock \in [Products -> 0..MaxStock]
    /\ price = InitPrice
    /\ loyalty = InitLoyalty
    /\ cart = [u \in Users |-> <<>>]
    /\ \E u \in Users, items \in StoredItems, ps \in StoredPaymentStatuses,
          os \in OrderStatuses, t \in 0..1 :
            orders = <<StoredOrder(u, items, ps, os, t)>>
    /\ charges = <<>>
    /\ refunds = <<>>
    /\ reqs = [s \in Slots |-> Idle]
    /\ resp = NoResp

NextCancel == CancelSteps(MaxOrders)

SpecCancel == InitCancel /\ [][NextCancel]_vars

\* Order creation and its totals over a range of inputs: the catalogue prices
\* (in cents) and the shopper's loyalty_score are drawn, with scores on both
\* sides of each discount tier; carts are filled and turned into orders by
\* complete_checkout and by POST /orders.  The prices are such that the
\* doubles of the code round to the same cents as the exact amounts here.
LoyaltyScores == {0, 500, 501, 1000, 1001, 1200}

PriceChoices ==
    {[p \in Products |-> IF p = 1 THEN p1 ELSE p2] :
        p1 \in {60000, 59999}, p2 \in {45000, 50000}}

InitOrder ==
    /\ stock = InitStock
    /\ price \in PriceChoices
    /\ \E score \in LoyaltyScores :
            loyalty = [u \in Users |-> IF u \in Shoppers THEN score ELSE InitLoyalty[u]]
    /\ cart = [u \in Users |-> <<>>]
    /\ orders = <<>>
    /\ charges = <<>>
    /\ refunds = <<>>
    /\ reqs = [s \in Slots |-> Idle]
    /\ resp = NoResp

NextOrder ==
    \/ CartSteps(Shoppers, Products)
    \/ \E u \in Users : get_checkout_preview(u)
    \/ CheckoutSteps(Worker, MaxOrders)
    \/ PostOrderSteps(Worker, MaxOrders)

SpecOrder == InitOrder /\ [][NextOrder]_vars

\* Cart validation over a range of inputs: the shopper's cart and the stock
\* are drawn (stock changes after a line was added, so a line may ask for
\* more than there is), then the cart is previewed and checked out.
CartLine(p, q) == [product |-> p, quantity |-> q]

StoredCarts ==
    {<<>>}
        \cup {<<CartLine(p, q)>> : p \in Products, q \in 1..MaxQty}
        \cup {<<CartLine(pp[1], q1), CartLine(pp[2], q2)>> :
                    pp \in {x \in Products \X Products : x[1] # x[2]},
                    q1 \in 1..MaxQty, q2 \in 1..MaxQty}

InitValidate ==
    /\ stock \in [Products -> 0..MaxStock]
    /\ price = InitPrice
    /\ loyalty = InitLoyalty
    /\ \E lines \in StoredCarts :
            cart = [u \in Users |-> IF u \in Shoppers THEN lines ELSE <<>>]
    /\ orders = <<>>
    /\ charges = <<>>
    /\ refunds = <<>>
    /\ reqs = [s \in Slots |-> Idle]
    /\ resp = NoResp

NextValidate ==
    \/ \E u \in Users : get_checkout_preview(u)
    \/ CheckoutSteps(Worker, MaxOrders)

SpecValidate == InitValidate /\ [][NextValidate]_vars

\* Checkout of a cart that holds valid and invalid lines: the stock and the
\* shopper's stored cart are drawn so that the cart has a line the stock
\* covers and a line it does not.
MixedCarts(stk) ==
    {lines \in StoredCarts :
        /\ \E i \in 1..Len(lines) : stk[lines[i].product] >= lines[i].quantity
        /\ \E i \in 1..Len(lines) : stk[lines[i].product] < lines[i].quantity}

InitMixedCart ==
    /\ stock \in [Products -> 0..MaxStock]
    /\ price = InitPrice
    /\ loyalty = InitLoyalty
    /\ \E lines \in MixedCarts(stock) :
            cart = [u \in Users |-> IF u \in Shoppers THEN lines ELSE <<>>]
    /\ orders = <<>>
    /\ charges = <<>>
    /\ refunds = <<>>
    /\ reqs = [s \in Slots |-> Idle]
    /\ resp = NoResp

NextMixedCart == CheckoutSteps(Worker, MaxOrders)

SpecMixedCart == InitMixedCart /\ [][NextMixedCart]_vars

----------------------------------------------------------------------------
\* Orders of a small amount: product 1 costs 50.00, so that an order of one
\* piece stays under 100.00, the highest min_amount of the catalog.

LowPrice == [p \in Products |-> IF p = 1 THEN 5000 ELSE 45000]

InitLowPrice ==
    /\ stock = InitStock
    /\ price = LowPrice
    /\ loyalty = InitLoyalty
    /\ cart = [u \in Users |-> <<>>]
    /\ orders = <<>>
    /\ charges = <<>>
    /\ refunds = <<>>
    /\ reqs = [s \in Slots |-> Idle]
    /\ resp = NoResp

NextLowPrice ==
    \/ CartSteps(Shoppers, Products)
    \/ CheckoutSteps(Worker, MaxOrders)
    \/ PostOrderSteps(Worker, MaxOrders)
    \/ PaySteps(Worker, MaxOrders)

SpecLowPrice == InitLowPrice /\ [][NextLowPrice]_vars

----------------------------------------------------------------------------
\* The gateway called on its own, over amounts, methods and card details that
\* the checks of CheckoutService.process_payment keep away from it.  charges
\* records the calls that returned; order 0 stands for no order.

GatewayAmounts == {0 - 100, 0, 1, 85225}

\* one call of PaymentGateway.process_payment; the call raises when the card
\* validation it makes for a card method raises
gateway_call(amount, method, card) ==
    /\ Len(charges) < MaxGatewayCalls
    /\ IF /\ amount > 0
          /\ method \in {"credit_card", "debit_card"}
          /\ card.present
          /\ validate_card_details(card) = "TypeError"
          THEN /\ resp' = Response("gateway", 0, 0, FALSE, "TypeError", "")
               /\ UNCHANGED charges
          ELSE \E outcome \in GatewayOutcomes :
               LET gw == gateway_process_payment(amount, method, card, outcome,
                                                 Len(charges) + 1)
               IN /\ charges' = Append(charges, ChargeRecord(0, amount, gw))
                  /\ resp' = payment_result("gateway", 0, 0, gw)
    /\ UNCHANGED <<stock, price, loyalty, cart, orders, refunds, reqs>>

NextGateway ==
    \E amount \in GatewayAmounts, method \in PaymentMethods, card \in Cards :
        gateway_call(amount, method, card)

SpecGateway == Init /\ [][NextGateway]_vars

----------------------------------------------------------------------------
\* A checkout that may stop between its commits, and the pay route that
\* takes the order up again; no other request touches the order.

NextResume ==
    \/ CartSteps(Shoppers, Products)
    \/ CheckoutSteps(Worker, MaxOrders)
    \/ PaySteps(Worker, MaxOrders)
    \/ \E s \in Worker : crash(s)

SpecResume == Init /\ [][NextResume]_vars

----------------------------------------------------------------------------
\* Two checkouts of one user in flight while the user goes on shopping: the
\* requests of two devices of the same account, served by two workers.

NextTwoDevices ==
    \/ CartSteps(Shoppers, Products)
    \/ CheckoutSteps(Slots, MaxRaceOrders)

SpecTwoDevices == Init /\ [][NextTwoDevices]_vars

----------------------------------------------------------------------------
\* The history of an order of product 1 while the catalog changes: checkout
\* with its payment, cancellation, the admin status update, and the admin's
\* update of product 1 to one of two prices and any stock up to MaxStock.

CatalogPrices == {60000, 66000}

NextHistory ==
    \/ CartSteps(Shoppers, {1})
    \/ CheckoutSteps(Worker, MaxOrders)
    \/ PaySteps(Worker, MaxOrders)
    \/ CancelSteps(MaxOrders)
    \/ AdminSteps(MaxOrders)
    \/ \E new_price \in CatalogPrices, new_stock \in 0..MaxStock :
            update_product(1, new_price, new_stock)

SpecHistory == Init /\ [][NextHistory]_vars

----------------------------------------------------------------------------
\* The stock ledger: the requests that move stock or change what an order
\* holds of it, and no other.  Checkout with its payment, the pay route, both
\* cancellations and the admin status update, served one at a time.

NextLedger ==
    \/ CartSteps(Shoppers, Products)
    \/ CheckoutSteps(Worker, MaxOrders)
    \/ PaySteps(Worker, MaxOrders)
    \/ CancelSteps(MaxOrders)
    \/ AdminSteps(MaxOrders)

SpecLedger == Init /\ [][NextLedger]_vars

----------------------------------------------------------------------------
\* The checkout repeated: one shopper, one request at a time, the cart and
\* complete_checkout only, with room for MaxRaceOrders orders.  The cart is
\* emptied by a successful payment and by nothing else.

NextRetry ==
    \/ CartSteps(Shoppers, Products)
    \/ CheckoutSteps(Worker, MaxRaceOrders)

SpecRetry == Init /\ [][NextRetry]_vars

----------------------------------------------------------------------------
\* Concurrent requests on one cart: every worker of Slots serves POST /cart
\* of the shopper, and the worker of Worker serves the shopper's checkout.
\* The cart is deleted by a paid checkout only while no POST /cart holds a
\* row it read, so that a row a request holds is still there when it writes.

NoCartRowHeld == \A t \in Slots : reqs[t].kind # "cart_read"

NextCartRace ==
    \/ \E s \in Slots, u \in Shoppers, p \in Products, q \in 1..MaxQty :
            add_to_cart_read(s, u, p, q)
    \/ \E s \in Slots : add_to_cart_write(s)
    \/ \E s \in Worker, u \in Shoppers :
            /\ WouldCheckout(u) => RoomForOrder(MaxOrders)
            /\ complete_checkout_validate(s, u)
    \/ \E s \in Worker : complete_checkout_create_order(s)
    \/ \E s \in Worker : NoCartRowHeld /\ complete_checkout_payment(s)

SpecCartRace == Init /\ [][NextCartRace]_vars

----------------------------------------------------------------------------
\* The cart routes and the checkout.  The quantities of an update request:
\* -1, none, 0.4, 1 and 2.

UpdateQuantities == {0 - 10, 0, 4, 10, 20}

NextCart ==
    \/ CartSteps(Shoppers, Products)
    \/ \E u \in Shoppers, i \in 1..2, q10 \in UpdateQuantities : update_cart_item(u, i, q10)
    \/ \E u \in Shoppers, i \in 1..2 : remove_cart_item(u, i)
    \/ \E u \in Shoppers : clear_cart(u)
    \/ CheckoutSteps(Worker, MaxOrders)

SpecCart == Init /\ [][NextCart]_vars

----------------------------------------------------------------------------
\* Checkouts whose generated order number may be one that is taken: the
\* number is drawn from OrderNumbers; MaxRaceOrders orders are stored.

OrderNumbers == 1..MaxRaceOrders

NextNumbers ==
    \/ CartSteps(Shoppers, Products)
    \/ \E s \in Worker, u \in Users :
            /\ WouldCheckout(u) => RoomForOrder(MaxRaceOrders)
            /\ complete_checkout_validate(s, u)
    \/ \E s \in Worker, n \in OrderNumbers : complete_checkout_create_order_numbered(s, n)
    \/ \E s \in Worker : complete_checkout_payment(s)

SpecNumbers == Init /\ [][NextNumbers]_vars

----------------------------------------------------------------------------
\* A product entered with a negative price: ProductCreate.price is any float
\* and create_product and update_product store it as it comes.  One piece of
\* product 1 makes an order whose final_amount is negative, the one amount
\* of an order that PaymentGateway.process_payment turns away without a
\* transaction id.

NegativePrice == [p \in Products |-> IF p = 1 THEN 0 - 30000 ELSE 45000]

InitNegativePrice ==
    /\ stock = InitStock
    /\ price = NegativePrice
    /\ loyalty = InitLoyalty
    /\ cart = [u \in Users |-> <<>>]
    /\ orders = <<>>
    /\ charges = <<>>
    /\ refunds = <<>>
    /\ reqs = [s \in Slots |-> Idle]
    /\ resp = NoResp

NextNegativePrice ==
    \/ CartSteps(Shoppers, Products)
    \/ CheckoutSteps(Worker, MaxRaceOrders)
    \/ PaySteps(Worker, MaxRaceOrders)

SpecNegativePrice == InitNegativePrice /\ [][NextNegativePrice]_vars

----------------------------------------------------------------------------
\* complete_checkout with a storage that fails.  A commit that the database
\* refuses (connection lost, statement timeout) raises an OperationalError
\* and the transaction is rolled back.

\* create_order's commit fails: the exception leaves create_order as it is
\* and complete_checkout reports it; order, items, stock and loyalty writes
\* are rolled back
complete_checkout_create_order_commit_fails(s) ==
    /\ reqs[s].kind = "checkout_validated"
    /\ resp' = Response("complete_checkout", reqs[s].user, 0, FALSE, "OperationalError",
                        complete_checkout_error_type("OperationalError"))
    /\ reqs' = [reqs EXCEPT ![s] = Idle]
    /\ UNCHANGED <<stock, price, loyalty, cart, orders, charges, refunds>>

\* process_payment's commit fails: the gateway has answered, the payment
\* result written on the order is rolled back, and the exception leaves
\* process_payment through its except clause
complete_checkout_payment_commit_fails(s) ==
    /\ reqs[s].kind = "checkout_created"
    /\ \E method \in PaymentMethods, card \in Cards, outcome \in GatewayOutcomes :
        LET r == reqs[s]
            o == r.order
            gw == gateway_process_payment(orders[o].final_amount, method,
                                          card, outcome, Len(charges) + 1)
        IN /\ process_payment_check(method, card) = "ok"
           /\ charges' = Append(charges, ChargeRecord(o, orders[o].final_amount, gw))
           /\ resp' = [Response("complete_checkout", r.user, 0, FALSE, "OperationalError",
                           complete_checkout_error_type(process_payment_raises("OperationalError")))
                        EXCEPT !.created = o]
    /\ reqs' = [reqs EXCEPT ![s] = Idle]
    /\ UNCHANGED <<stock, price, loyalty, cart, orders, refunds>>

NextFault ==
    \/ CartSteps(Shoppers, Products)
    \/ CheckoutSteps(Worker, MaxOrders)
    \/ \E s \in Worker : complete_checkout_create_order_commit_fails(s)
    \/ \E s \in Worker : complete_checkout_payment_commit_fails(s)

SpecFault == Init /\ [][NextFault]_vars

----------------------------------------------------------------------------
\* Properties.  The step that returned resp' is recognised by resp'.op: every
\* step sets resp, to NoResp when it returns nothing.

\* C1: for all concurrent or sequential checkouts (complete_checkout and
\* POST /orders) no product's stock is negative in any reachable state.
C1_StockNeverNegative == \A p \in Products : stock[p] >= 0

\* C2: when complete_checkout returns a failure because one of its steps
\* raised, the request has left no order behind (nor, with it, its items, its
\* stock decrements and its loyalty accrual, which create_order commits
\* together with the order).
C2_RaiseRollsBack ==
    (resp.op = "complete_checkout" /\ resp.error_type # "")
        => resp.created \notin OrderIds

\* C3: a cancellation (service or route) succeeds only on an order of the
\* caller that is processing or confirmed; on one that is shipped, delivered
\* or cancelled it fails with "Cannot cancel order in current status" and
\* changes neither the orders, nor any stock, nor the gateway's calls.
C3_CancelOnlyFromOpen ==
    [][resp'.op \in {"cancel_order", "cancel_order_route"} =>
        LET o == resp'.order
            u == resp'.user
        IN /\ resp'.success =>
                /\ OwnedBy(o, u)
                /\ orders[o].order_status \in {"processing", "confirmed"}
           /\ (OwnedBy(o, u) /\ orders[o].order_status \in {"shipped", "delivered", "cancelled"}) =>
                /\ ~resp'.success
                /\ resp'.error = "Cannot cancel order in current status"
                /\ orders' = orders
                /\ stock' = stock
                /\ charges' = charges
                /\ refunds' = refunds]_vars

C3_Witness ==
    /\ resp.op = "cancel_order"
    /\ resp.error = "Cannot cancel order in current status"
    /\ OwnedBy(resp.order, resp.user)
    /\ orders[resp.order].order_status = "shipped"

\* C4: an order's order_status only moves forward along processing ->
\* confirmed -> shipped -> delivered, or from processing / confirmed to
\* cancelled; delivered and cancelled are never left.
StatusRank(st) ==
    CASE st = "processing" -> 0
      [] st = "confirmed" -> 1
      [] st = "shipped" -> 2
      [] st = "delivered" -> 3
      [] OTHER -> 4

ForwardStep(a, b) ==
    \/ a = b
    \/ a \in {"processing", "confirmed"} /\ b = "cancelled"
    \/ a # "cancelled" /\ b # "cancelled" /\ StatusRank(a) < StatusRank(b)

C4_StatusOnlyForward ==
    [][\A o \in OrderIds :
            ForwardStep(orders[o].order_status, orders'[o].order_status)]_vars

\* C5 as claimed: after complete_checkout returns with a successful payment
\* the user's cart is empty; after it returns with a failed payment the cart
\* is as it was and the order is processing with payment_status pending.
C5_FailedPaymentLeavesPending ==
    [][(resp'.op = "complete_checkout" /\ resp'.status # "") =>
        LET o == resp'.order
            u == resp'.user
        IN IF resp'.success
              THEN cart'[u] = <<>>
              ELSE /\ cart' = cart
                   /\ orders'[o].order_status = "processing"
                   /\ orders'[o].payment_status = "pending"]_vars

\* C5 as amended: after complete_checkout returns with a successful payment
\* the user's cart is empty; after it returns with a failed payment the cart
\* is as it was, the order's order_status is the one it had before the payment
\* (processing, unless the admin or a cancellation changed it meanwhile) and
\* its payment_status is failed.
C5_FailedPaymentLeavesFailed ==
    [][(resp'.op = "complete_checkout" /\ resp'.status # "") =>
        LET o == resp'.order
            u == resp'.user
        IN IF resp'.success
              THEN cart'[u] = <<>>
              ELSE /\ cart' = cart
                   /\ orders'[o].order_status = orders[o].order_status
                   /\ orders'[o].payment_status = "failed"]_vars

C5_Witness ==
    /\ resp.op = "complete_checkout"
    /\ resp.status = "failed"
    /\ cart[resp.user] # <<>>
    /\ orders[resp.order].order_status = "processing"
    /\ orders[resp.order].payment_status = "failed"

\* the order's payment succeeded through process_payment: the gateway
\* answered SUCCESS with the transaction id the order stores
PaidThroughGateway(o) ==
    /\ orders[o].payment_status = "paid"
    /\ \E i \in 1..Len(charges) :
            /\ charges[i].order = o
            /\ charges[i].status = PaymentStatus_SUCCESS
            /\ charges[i].transaction_id = orders[o].transaction_id

\* C6: cancel_order on a cancellable order whose payment succeeded through
\* process_payment calls the gateway's refund_payment with the order's
\* transaction_id and final_amount and returns its outcome in refund_result.
C6_RefundOnCancel ==
    [][(resp'.op = "cancel_order" /\ resp'.success /\ PaidThroughGateway(resp'.order)) =>
        LET o == resp'.order IN
        /\ Len(refunds') = Len(refunds) + 1
        /\ refunds'[Len(refunds')].transaction_id = orders[o].transaction_id
        /\ refunds'[Len(refunds')].amount = orders[o].final_amount
        /\ resp'.refund = refunds'[Len(refunds')].status]_vars

C8_CancelRestoresStock ==
    [][(resp'.op = "cancel_order" /\ resp'.success) =>
        \A p \in Products :
            stock'[p] = stock[p] + QtyOf(orders[resp'.order].items, p)]_vars

\* a cancellation whose refund failed gave back both pieces of an item
C8_Witness ==
    /\ resp.op = "cancel_order"
    /\ resp.success
    /\ resp.refund = PaymentStatus_FAILED
    /\ Len(orders[resp.order].items) = 2
    /\ orders[resp.order].items[1].quantity = 2
    /\ stock[orders[resp.order].items[1].product] = 2

\* C9: process_payment turns the gateway's SUCCESS into payment_status paid
\* and order_status confirmed; on any other answer it leaves order_status as
\* it is and sets payment_status to the status the gateway reported; it
\* returns a result whose success flag is true exactly on SUCCESS.
C9_PaymentMapping ==
    [][(resp'.op \in {"complete_checkout", "pay"} /\ Len(charges') = Len(charges) + 1) =>
        LET o == resp'.order
            reported == charges'[Len(charges')].status
        IN /\ resp'.error_type = ""
           /\ resp'.success <=> (reported = PaymentStatus_SUCCESS)
           /\ IF reported = PaymentStatus_SUCCESS
                 THEN /\ orders'[o].payment_status = "paid"
                      /\ orders'[o].order_status = "confirmed"
                 ELSE /\ orders'[o].payment_status = reported
                      /\ orders'[o].order_status = orders[o].order_status]_vars

C9_Witness ==
    /\ resp.op = "pay"
    /\ ~resp.success
    /\ resp.status = "failed"
    /\ orders[resp.order].order_status = "processing"
    /\ orders[resp.order].payment_status = "failed"
    /\ orders[resp.order].transaction_id = resp.transaction_id
    /\ resp.transaction_id # 0

\* C10: after process_payment reported a failed payment for an order, a pay
\* request of the order's owner for it is accepted: it is not turned away
\* as already processed.
C10_RetryAfterFailure ==
    [][(/\ resp'.op = "pay"
        /\ OwnedBy(resp'.order, resp'.user)
        /\ orders[resp'.order].payment_status = "failed")
            => resp'.error # "Payment already processed"]_vars

\* C11: a pay request (POST /orders/{order_id}/pay) is taken on only for an
\* order of the caller whose payment_status is pending; one that arrives for
\* an order that is not the caller's or not pending is rejected, and then no
\* gateway call is made and no order changes.
C11_PayRejectedUnlessPending ==
    [][\A s \in Slots :
        /\ (reqs[s] = Idle /\ reqs'[s].kind = "pay_checked") =>
                LET o == reqs'[s].order
                    u == reqs'[s].user
                IN /\ o \in OrderIds
                   /\ orders[o].user = u
                   /\ orders[o].payment_status = "pending"
        /\ (/\ resp'.op = "pay"
            /\ reqs[s] = Idle
            /\ reqs' = reqs
            /\ \/ resp'.order \notin OrderIds
               \/ orders[resp'.order].user # resp'.user
               \/ orders[resp'.order].payment_status # "pending") =>
                /\ ~resp'.success
                /\ resp'.error \in {"Order not found", "Payment already processed"}
                /\ charges' = charges
                /\ orders' = orders]_vars

\* the owner's pay request for an order that is already paid was rejected
C11_Witness ==
    /\ resp.op = "pay"
    /\ resp.error = "Payment already processed"
    /\ resp.order \in OrderIds
    /\ orders[resp.order].user = resp.user
    /\ orders[resp.order].payment_status = "paid"
    /\ Len(charges) = 1

\* C12: a cancellation (cancel_order, and the route cancel_order_route) asked
\* for by a user who does not own the order is rejected with "Order not
\* found" and changes no order, no stock and makes no gateway call.
C12_CancelByOwnerOnly ==
    [][(/\ resp'.op \in {"cancel_order", "cancel_order_route"}
        /\ resp'.order \in OrderIds
        /\ orders[resp'.order].user # resp'.user) =>
            /\ ~resp'.success
            /\ resp'.error = "Order not found"
            /\ orders' = orders
            /\ stock' = stock
            /\ refunds' = refunds
            /\ charges' = charges]_vars

\* another user's cancel_order for a cancellable order was rejected
C12_Witness ==
    /\ resp.op = "cancel_order"
    /\ resp.error = "Order not found"
    /\ resp.order \in OrderIds
    /\ orders[resp.order].user # resp.user
    /\ orders[resp.order].order_status = "confirmed"
    /\ refunds = <<>>

\* C13: in every committed state every stored order has its OrderItems (an
\* order is never stored without them), on the checkout service path and on
\* the POST /orders path, also when a request fails or stops partway.
C13_OrderStoredWithItems == \A o \in OrderIds : orders[o].items # <<>>

\* C14: create_order (the step of complete_checkout that commits the order)
\* stores one new order of the user, processing / pending, with one OrderItem
\* for each line validate_cart_items found valid, lowers the stock of every
\* product by the quantities ordered of it and raises the user's
\* loyalty_score by floor(final_amount / 10) of the final amount calculated
\* for the order; nothing else changes loyalty.
C14_CreateOrderEffects ==
    [][\A s \in Slots :
        (reqs[s].kind = "checkout_validated" /\ reqs'[s].kind = "checkout_created") =>
            LET u == reqs[s].user
                lines == reqs[s].lines
                o == reqs'[s].order
                final == calculate_order_totals(orders'[o].total_amount, loyalty[u]).final_amount
            IN /\ o = Len(orders) + 1
               /\ Len(orders') = o
               /\ \A i \in 1..Len(orders) : orders'[i] = orders[i]
               /\ orders'[o].user = u
               /\ orders'[o].order_status = "processing"
               /\ orders'[o].payment_status = "pending"
               /\ Len(orders'[o].items) = Len(lines)
               /\ \A i \in 1..Len(lines) :
                    /\ orders'[o].items[i].product = lines[i].product
                    /\ orders'[o].items[i].quantity = lines[i].quantity
               /\ \A p \in Products : stock'[p] = stock[p] - QtyOf(lines, p)
               /\ loyalty'[u] = loyalty[u] + (final.e4 \div 100000)
               /\ \A v \in Users \ {u} : loyalty'[v] = loyalty[v]]_vars

\* create_order stored an order of two pieces of product 1 and one of product
\* 2 (1700.00 before the 10% discount, 1665.79 to pay) for the user with
\* score 1200: no stock is left and the score is 1200 + 166
C14_Witness ==
    /\ \E s \in Slots : reqs[s].kind = "checkout_created" /\ reqs[s].order = 1
    /\ Len(orders) = 1
    /\ Len(orders[1].items) = 2
    /\ orders[1].total_amount = 170000
    /\ orders[1].final_amount = 166579
    /\ orders[1].payment_status = "pending"
    /\ \A p \in Products : stock[p] = 0
    /\ loyalty[1] = 1366

\* C15: for every stored order, with its monetary fields as the DECIMAL(10,2)
\* columns hold them, final_amount = (total_amount - discount_amount) +
\* tax_amount + shipping_amount and no monetary field is negative.
C15_StoredAmountsAddUp ==
    \A o \in OrderIds :
        /\ orders[o].final_amount =
                (orders[o].total_amount - orders[o].discount_amount)
                    + orders[o].tax_amount + orders[o].shipping_amount
        /\ orders[o].total_amount >= 0
        /\ orders[o].discount_amount >= 0
        /\ orders[o].tax_amount >= 0
        /\ orders[o].shipping_amount >= 0
        /\ orders[o].final_amount >= 0

\* the request of slot s is the complete_checkout whose create_order commits
\* in this step
CreateOrderStep(s) ==
    reqs[s].kind = "checkout_validated" /\ reqs'[s].kind = "checkout_created"

\* subtotal of the lines a complete_checkout request validated, in cents
SubtotalOf(lines) == SumSeq([i \in 1..Len(lines) |-> lines[i].total_price])

\* C16: the discount of an order is 10% of the subtotal when the user's
\* loyalty_score is above 1000, 5% when it is above 500 and at most 1000, and
\* nothing when it is at most 500 (500 and 1000 are in the lower tier); the
\* order stores that amount at two decimals.
C16_DiscountTiers ==
    [][\A s \in Slots : CreateOrderStep(s) =>
        LET score == reqs[s].loyalty_read
            subtotal == SubtotalOf(reqs[s].lines)
            o == reqs'[s].order
        IN /\ score > 1000 =>
                orders'[o].discount_amount = Round2(Amount(subtotal * 10, 0))
           /\ (500 < score /\ score <= 1000) =>
                orders'[o].discount_amount = Round2(Amount(subtotal * 5, 0))
           /\ score <= 500 => orders'[o].discount_amount = 0]_vars

\* an order of 600.00 of the user whose score was exactly 1000 carries the 5%
\* discount of 30.00 (and 81 points were added to the score)
C16_Witness ==
    /\ Len(orders) = 1
    /\ orders[1].items # <<>>
    /\ orders[1].total_amount = 60000
    /\ orders[1].discount_amount = 3000
    /\ orders[1].shipping_amount = 19900
    /\ loyalty[1] = 1081

ValidateStep(s, u) ==
    \/ resp'.op = "preview" /\ resp'.user = u
    \/ /\ reqs[s] = Idle
       /\ \/ reqs'[s].kind = "checkout_validated" /\ reqs'[s].user = u
          \/ resp'.op = "complete_checkout" /\ resp'.user = u /\ reqs' = reqs

\* C19: validate_cart_items puts every line of the user's cart in exactly one
\* of valid_items and invalid_items, in valid_items exactly when the product
\* exists and its stock is at least the quantity; total_amount is the sum of
\* price * quantity over the valid lines and item_count the sum of their
\* quantities; the call changes no state; and it fails ("Cart is empty")
\* exactly when the cart is empty.
C19_ValidatePartitions ==
    [][\A s \in Slots, u \in Users : ValidateStep(s, u) =>
        LET v == validate_cart_items(u)
            HasStock(l) == l.product \in Products /\ stock[l.product] >= l.quantity
            LineOf(i) == [product |-> i.product, quantity |-> i.quantity]
            valid == SelectSeq(cart[u], HasStock)
            invalid == SelectSeq(cart[u], LAMBDA l : ~HasStock(l))
        IN /\ [i \in 1..Len(v.valid_items) |-> LineOf(v.valid_items[i])] = valid
           /\ v.invalid_items = invalid
           /\ Len(v.valid_items) + Len(v.invalid_items) = Len(cart[u])
           /\ \A i \in 1..Len(v.valid_items) :
                v.valid_items[i].total_price
                    = price[v.valid_items[i].product] * v.valid_items[i].quantity
           /\ v.total_amount
                = SumSeq([i \in 1..Len(valid) |-> price[valid[i].product] * valid[i].quantity])
           /\ v.item_count = SumSeq([i \in 1..Len(valid) |-> valid[i].quantity])
           /\ UNCHANGED <<stock, price, loyalty, cart, orders, charges, refunds>>
           /\ (resp'.error = "Cart is empty") <=> (cart[u] = <<>>)
           /\ (reqs[s] = Idle /\ reqs'[s].kind = "checkout_validated" /\ reqs'[s].user = u)
                => reqs'[s].lines = v.valid_items]_vars

\* a complete_checkout validated a cart of two lines: the line that asks for
\* all the stock of its product is valid, the one that asks for more than
\* there is of the other is not
C19_Witness ==
    \E s \in Slots :
        /\ reqs[s].kind = "checkout_validated"
        /\ Len(cart[reqs[s].user]) = 2
        /\ Len(reqs[s].lines) = 1
        /\ reqs[s].lines[1].quantity = 2
        /\ stock[reqs[s].lines[1].product] = 2
        /\ \E i \in 1..2 :
                LET l == cart[reqs[s].user][i]
                IN l.product # reqs[s].lines[1].product /\ stock[l.product] < l.quantity

\* the exceptions of the model that no business rule raises: the TypeError
\* thrown by the gateway's card validation and the storage's OperationalError
UnexpectedFaults == {"TypeError", "OperationalError"}

\* the business-rule violations complete_checkout meets
BusinessRuleViolations ==
    {"Cart is empty", "No valid items in cart", "Unsupported payment method",
     "Card details required for card payments", "Invalid card details"}

\* C20: complete_checkout reports an unexpected fault (a storage failure, an
\* exception thrown by the payment gateway) with error_type system_error and
\* a business-rule violation (empty cart, no valid items, unsupported payment
\* method, invalid instrument details) with error_type checkout_error.
C20_ErrorCategories ==
    resp.op = "complete_checkout" =>
        /\ resp.error \in UnexpectedFaults => resp.error_type = "system_error"
        /\ resp.error \in BusinessRuleViolations => resp.error_type = "checkout_error"

\* a request that process_payment is to refuse before it calls the gateway:
\* the method is not supported, a card method comes without card details, or
\* the card details given are not well formed
FailFastRequest(method, card) ==
    \/ method \notin get_supported_payment_methods
    \/ method \in {"credit_card", "debit_card"} /\ ~card.present
    \/ card.present /\ validate_card_details(card) # "ok"

\* C21: when the payment method is unsupported, a card method has no card
\* details, or the card details are structurally invalid, process_payment
\* (in complete_checkout and in the pay route) does not call the gateway's
\* process_payment and leaves the order's payment_status, order_status and
\* transaction_id as they were.
C21_FailFastBeforeGateway ==
    [][\A s \in {t \in Slots : reqs[t].kind \in {"checkout_created", "pay_checked"}} :
       \A method \in PaymentMethods, card \in Cards :
        (/\ FailFastRequest(method, card)
         /\ \/ complete_checkout_payment_with(s, method, card)
            \/ pay_route_gateway_with(s, method, card))
        => /\ charges' = charges
           /\ orders' = orders
           /\ ~resp'.success
           /\ resp'.error # ""]_vars

\* a pay request with a card number of 15 digits was refused: the order it
\* names is still pending and no gateway call is recorded for it
C21_Witness ==
    /\ resp.op = "pay"
    /\ resp.error = "Invalid card details"
    /\ resp.order \in OrderIds
    /\ orders[resp.order].payment_status = "pending"
    /\ orders[resp.order].transaction_id = 0
    /\ \A i \in 1..Len(charges) : charges[i].order # resp.order

\* C22: no payment succeeds (no order becomes paid/confirmed) for an order
\* whose final_amount is below the min_amount or above the max_amount that the
\* catalog of payment methods gives for the method of the request.
C22_AmountBoundsEnforced ==
    [][\A s \in {t \in Slots : reqs[t].kind \in {"checkout_created", "pay_checked"}} :
       \A method \in RouteMethods, card \in Cards :
        (/\ \/ complete_checkout_payment_with(s, method, card)
            \/ pay_route_gateway_with(s, method, card)
         /\ \/ resp'.success
            \/ orders'[reqs[s].order].payment_status = "paid"
            \/ orders'[reqs[s].order].order_status = "confirmed")
        => LET amount == orders[reqs[s].order].final_amount
               bounds == method_amount_bounds[method]
           IN bounds.min_amount <= amount /\ amount <= bounds.max_amount]_vars

\* a request the gateway accepts: none of its three validations refuses it
GatewayAccepts(amount, method, card) ==
    /\ amount > 0
    /\ method \in get_supported_payment_methods
    /\ ~(method \in {"credit_card", "debit_card"} /\ card.present
            /\ validate_card_details(card) # "ok")

\* C23: the gateway's process_payment returns FAILED without a transaction id
\* for a non-positive amount or an unsupported method; for every request it
\* accepts it returns a transaction id, whatever the outcome drawn (success,
\* decline, timeout); and it never returns SUCCESS without a transaction id.
C23_GatewayTransactionId ==
    [][\A amount \in GatewayAmounts, method \in PaymentMethods, card \in Cards :
        (gateway_call(amount, method, card) /\ resp'.error = "")
        => /\ (amount <= 0 \/ method \notin get_supported_payment_methods)
                => resp'.status = PaymentStatus_FAILED /\ resp'.transaction_id = 0
           /\ GatewayAccepts(amount, method, card) => resp'.transaction_id # 0
           /\ resp'.status = PaymentStatus_SUCCESS => resp'.transaction_id # 0
           /\ GatewayAccepts(amount, method, card) =>
                \A st \in {PaymentStatus_SUCCESS, PaymentStatus_FAILED} :
                    ENABLED (gateway_call(amount, method, card) /\ resp'.status = st)]_vars

\* the gateway has returned FAILED with a transaction id for an accepted
\* request, after a FAILED without one for an amount of zero
C23_Witness ==
    /\ Len(charges) = 2
    /\ charges[1].amount = 0
    /\ charges[1].transaction_id = 0
    /\ charges[2].amount > 0
    /\ charges[2].status = PaymentStatus_FAILED
    /\ charges[2].transaction_id # 0
    /\ resp.op = "gateway"

\* C24: when the process stops after create_order committed and before
\* process_payment ran, the order is left with order_status processing and
\* payment_status pending; a pay request of its owner for such an order is
\* accepted, and the payment it starts can end with the order paid and
\* confirmed.
C24_StopLeavesOrderPayable ==
    /\ [][\A s \in Slots :
            (reqs[s].kind = "checkout_created" /\ crash(s))
            => /\ orders' = orders
               /\ orders'[reqs[s].order].order_status = "processing"
               /\ orders'[reqs[s].order].payment_status = "pending"]_vars
    /\ [](\A s \in Slots, o \in OrderIds :
            (/\ reqs[s] = Idle
             /\ orders[o].order_status = "processing"
             /\ orders[o].payment_status = "pending")
            => ENABLED (/\ pay_route_begin(s, orders[o].user, o)
                        /\ reqs'[s].kind = "pay_checked"
                        /\ reqs'[s].order = o))
    /\ [](\A s \in Slots :
            reqs[s].kind = "pay_checked"
            => ENABLED (/\ pay_route_gateway(s)
                        /\ resp'.success
                        /\ orders'[reqs[s].order].payment_status = "paid"
                        /\ orders'[reqs[s].order].order_status = "confirmed"))

\* no request is in flight and none has answered, an order is stored as
\* processing and pending, the gateway was never called and the cart is still
\* there: the state left by a stop right after create_order
C24_Witness ==
    /\ resp = NoResp
    /\ \A s \in Slots : reqs[s] = Idle
    /\ charges = <<>>
    /\ \E o \in OrderIds :
        /\ orders[o].order_status = "processing"
        /\ orders[o].payment_status = "pending"
        /\ orders[o].items # <<>>
        /\ cart[orders[o].user] # <<>>

\* C25: a user's loyalty_score is a non-negative integer and no step of a
\* checkout, a payment, a cancellation or an order creation lowers it.
C25_LoyaltyNeverDecreases ==
    [][\A u \in Users : loyalty'[u] \in Nat /\ loyalty'[u] >= loyalty[u]]_vars

\* what an order keeps of its creation: its items and its amounts
OrderSnapshot(ord) ==
    [items |-> ord.items, total_amount |-> ord.total_amount,
     tax_amount |-> ord.tax_amount, shipping_amount |-> ord.shipping_amount,
     discount_amount |-> ord.discount_amount, final_amount |-> ord.final_amount,
     user |-> ord.user]

\* C26: once an order is created, no later step (process_payment,
\* cancel_order, the admin status update, a change of a product's price)
\* changes its items (product, quantity, unit price, total price) or its
\* monetary fields.
C26_OrderSnapshotKept ==
    [][\A o \in OrderIds :
        /\ o \in 1..Len(orders')
        /\ OrderSnapshot(orders'[o]) = OrderSnapshot(orders[o])]_vars

\* the order was paid, then cancelled, and product 1 now costs 660.00 in the
\* catalog while the order's item still carries the 600.00 it was sold at
C26_Witness ==
    \E o \in OrderIds :
        /\ orders[o].order_status = "cancelled"
        /\ orders[o].transaction_id # 0
        /\ orders[o].items # <<>>
        /\ orders[o].items[1].product = 1
        /\ orders[o].items[1].unit_price = 60000
        /\ price[1] = 66000

\* C27: every cart line has a quantity above zero in every reachable state:
\* after add_to_cart (on a new and on an existing line), update_cart_item,
\* remove_cart_item, clear_cart and checkout.
C27_CartQuantityPositive ==
    \A u \in Users : \A i \in 1..Len(cart[u]) : cart[u][i].quantity > 0

\* C28: the stored orders have pairwise distinct order numbers; an attempt to
\* store an order under a number that is taken fails and leaves no new order,
\* no stock decrement and no loyalty change.
C28_OrderNumbersDistinct ==
    /\ [](\A o1, o2 \in OrderIds :
            o1 # o2 => orders[o1].order_number # orders[o2].order_number)
    /\ [][\A s \in Slots, n \in OrderNumbers :
            (/\ complete_checkout_create_order_numbered(s, n)
             /\ \E o \in OrderIds : orders[o].order_number = n)
            => /\ orders' = orders
               /\ stock' = stock
               /\ loyalty' = loyalty
               /\ ~resp'.success
               /\ resp'.error # ""]_vars

\* a checkout was turned away for its order number while the one order that
\* holds the number is stored and the cart of the second checkout is intact
C28_Witness ==
    /\ resp.op = "complete_checkout"
    /\ resp.error = "IntegrityError"
    /\ Len(orders) = 1
    /\ cart[resp.user] # <<>>
    /\ \A s \in Slots : reqs[s] = Idle

\* C29: the admin status update that sets order_status to delivered sets
\* payment_status to paid; an update to any other status leaves
\* payment_status as it was; tracking_number is written only when the new
\* status is shipped and a tracking number comes with the request.
C29_AdminUpdateEffects ==
    [][\A o \in OrderIds, st \in OrderStatuses, t \in 0..1 :
        update_order_status(o, st, t)
        => /\ orders'[o].order_status = st
           /\ st = "delivered" => orders'[o].payment_status = "paid"
           /\ st # "delivered" => orders'[o].payment_status = orders[o].payment_status
           /\ orders'[o].tracking_number =
                IF st = "shipped" /\ t # 0 THEN t ELSE orders[o].tracking_number]_vars

\* an order the gateway never charged was shipped with a tracking number and
\* then set to delivered: it is stored as paid
C29_Witness ==
    \E o \in OrderIds :
        /\ orders[o].order_status = "delivered"
        /\ orders[o].payment_status = "paid"
        /\ orders[o].tracking_number = 1
        /\ orders[o].transaction_id = 0
        /\ charges = <<>>

\* C30: every call of process_payment that reached the gateway (from
\* complete_checkout or from the pay route) leaves the order's transaction_id
\* equal to the transaction id the gateway returned, when it returned one,
\* for a failed payment as for a successful one; when the gateway returned
\* none, the order keeps the transaction_id it had.
C30_TransactionIdRecorded ==
    [][\A s \in {t \in Slots : reqs[t].kind \in {"checkout_created", "pay_checked"}} :
        (reqs'[s] = Idle /\ Len(charges') = Len(charges) + 1)
        => LET o == reqs[s].order
               gw == charges'[Len(charges')]
           IN /\ gw.order = o
              /\ gw.transaction_id # 0
                    => orders'[o].transaction_id = gw.transaction_id
              /\ gw.transaction_id = 0
                    => orders'[o].transaction_id = orders[o].transaction_id]_vars

\* one order whose payment failed with a transaction id, recorded on it, and
\* one that the gateway turned away without an id, which has none
C30_Witness ==
    \E o1, o2 \in OrderIds, c1, c2 \in 1..Len(charges) :
        /\ charges[c1].order = o1
        /\ charges[c1].status = PaymentStatus_FAILED
        /\ charges[c1].transaction_id # 0
        /\ orders[o1].transaction_id = charges[c1].transaction_id
        /\ orders[o1].payment_status = "failed"
        /\ charges[c2].order = o2
        /\ charges[c2].transaction_id = 0
        /\ orders[o2].final_amount <= 0
        /\ orders[o2].transaction_id = 0

\* C31: a complete_checkout of a user whose cart is empty or has no valid
\* line ends at its first step with success false and error_type
\* checkout_error, and leaves every stock, the carts, the loyalty scores and
\* the orders as they were, with no call of the gateway; no such checkout
\* goes on to create_order.
C31_NothingToCheckOut ==
    [][/\ (resp'.op = "complete_checkout" /\ reqs' = reqs)
            => LET u == resp'.user
               IN /\ ValidItems(cart[u]) = <<>>
                  /\ ~resp'.success
                  /\ resp'.error_type = "checkout_error"
                  /\ resp'.error = IF cart[u] = <<>> THEN "Cart is empty"
                                   ELSE "No valid items in cart"
                  /\ resp'.created = 0
                  /\ UNCHANGED <<stock, cart, loyalty, orders, charges, refunds>>
       /\ \A s \in Slots :
            (reqs[s] = Idle /\ reqs'[s].kind = "checkout_validated")
                => ValidItems(cart[reqs'[s].user]) # <<>>]_vars

\* a checkout was refused for a cart of two lines, neither of them valid
C31_Witness ==
    /\ resp.op = "complete_checkout"
    /\ resp.error = "No valid items in cart"
    /\ Len(cart[resp.user]) = 2
    /\ \A i \in 1..2 : stock[cart[resp.user][i].product] < cart[resp.user][i].quantity
    /\ orders = <<>>
    /\ charges = <<>>

\* the pieces of product p held by the orders that are not cancelled
HeldByOrders(p) ==
    SumSeq([o \in 1..Len(orders) |->
                IF orders[o].order_status # "cancelled"
                    THEN QtyOf(orders[o].items, p) ELSE 0])

\* C32: in every reachable state, for every product, the stock plus the
\* quantities of the product in the items of the orders that are not
\* cancelled is the initial stock of the product.
C32_StockConserved ==
    \A p \in Products : stock[p] + HeldByOrders(p) = InitStock[p]

\* the gateway calls for order o that it answered with SUCCESS
SuccessfulCharges(o) ==
    {c \in 1..Len(charges) :
        charges[c].order = o /\ charges[c].status = PaymentStatus_SUCCESS}

\* C33: in every reachable state, concurrent checkout and pay requests
\* included, the gateway has answered SUCCESS to at most one charge of any
\* one order.
C33_ChargedAtMostOnce ==
    \A o \in OrderIds : Cardinality(SuccessfulCharges(o)) <= 1

\* C34: in every reachable state an order that is confirmed is paid, and an
\* order that is paid has a transaction id.
C34_ConfirmedPaidWithTransaction ==
    \A o \in OrderIds :
        /\ orders[o].order_status = "confirmed" => orders[o].payment_status = "paid"
        /\ orders[o].payment_status = "paid" => orders[o].transaction_id # 0

\* the orders of user u that are not cancelled, were not paid, and hold
\* exactly the lines that are in the user's cart
BackingOrders(u) ==
    {o \in OrderIds :
        /\ orders[o].user = u
        /\ orders[o].order_status # "cancelled"
        /\ orders[o].payment_status # "paid"
        /\ [i \in 1..Len(orders[o].items) |->
                CartLine(orders[o].items[i].product, orders[o].items[i].quantity)]
             = cart[u]}

\* C35: in every reachable state the lines left in a user's cart by a
\* checkout whose payment failed are backed by at most one order that is not
\* cancelled: a complete_checkout repeated after the failure stores no second
\* order for them (and so lowers no stock for them a second time).
C35_CartBackedByOneOrder ==
    \A u \in Users :
        (/\ cart[u] # <<>>
         /\ \E o \in BackingOrders(u) : orders[o].payment_status = "failed")
            => Cardinality(BackingOrders(u)) <= 1

\* the lines of user u's cart that the stock covers, and those it does not
CoveredLines(u) ==
    SelectSeq(cart[u], LAMBDA l : l.product \in Products /\ stock[l.product] >= l.quantity)
UncoveredLines(u) ==
    SelectSeq(cart[u], LAMBDA l : ~(l.product \in Products /\ stock[l.product] >= l.quantity))

\* C36: for a cart that holds valid and invalid lines, create_order stores
\* one OrderItem for each valid line and none for an invalid one, and leaves
\* the stock of every product that has no valid line as it was; the
\* successful payment of that complete_checkout then removes every line of
\* the user's cart, the invalid ones too, and changes neither the items nor
\* any stock.
C36_MixedCartCheckout ==
    [][\A s \in Slots :
        /\ (/\ reqs[s].kind = "checkout_validated"
            /\ reqs'[s].kind = "checkout_created"
            /\ UncoveredLines(reqs[s].user) # <<>>)
            => LET u == reqs[s].user
                   items == orders'[reqs'[s].order].items
               IN /\ [i \in 1..Len(items) |-> CartLine(items[i].product, items[i].quantity)]
                        = CoveredLines(u)
                  /\ \A p \in Products :
                        QtyOf(CoveredLines(u), p) = 0 => stock'[p] = stock[p]
                  /\ \A p \in Products :
                        stock'[p] = stock[p] - QtyOf(CoveredLines(u), p)
                  /\ cart' = cart
        /\ (/\ reqs[s].kind = "checkout_created"
            /\ resp'.op = "complete_checkout"
            /\ resp'.success
            /\ Len(cart[reqs[s].user]) > Len(orders[reqs[s].order].items))
            => /\ cart'[reqs[s].user] = <<>>
               /\ orders'[reqs[s].order].items = orders[reqs[s].order].items
               /\ stock' = stock]_vars

\* a checkout of a mixed cart was paid: the order has an item for the one
\* valid line, the cart is empty, and the product of the other line is
\* not among the items
C36_Witness ==
    /\ resp.op = "complete_checkout"
    /\ resp.success
    /\ cart[resp.user] = <<>>
    /\ Len(orders[resp.created].items) = 1
    /\ orders[resp.created].payment_status = "paid"
    /\ \E p \in Products :
            /\ QtyOf(orders[resp.created].items, p) = 0
            /\ stock[p] < MaxQty

\* the values the code writes to orders.payment_status
PaymentStatusValues == {"pending", "paid", "failed", "cancelled", "refunded"}

\* cancel_order and cancel_order_route, asked by user u to cancel order o in
\* the present state, agree on one part of their result: whether the request
\* is accepted, and the order_status, the payment_status and the stock they
\* leave
SameAcceptance(o, u) ==
    \A ok \in BOOLEAN :
        ENABLED (cancel_order(o, u) /\ resp'.success = ok)
            <=> ENABLED (cancel_order_route(o, u) /\ resp'.success = ok)
SameOrderStatus(o, u) ==
    \A st \in OrderStatuses :
        ENABLED (cancel_order(o, u) /\ orders'[o].order_status = st)
            <=> ENABLED (cancel_order_route(o, u) /\ orders'[o].order_status = st)
SamePaymentStatus(o, u) ==
    \A ps \in PaymentStatusValues \cup {"success"} :
        ENABLED (cancel_order(o, u) /\ orders'[o].payment_status = ps)
            <=> ENABLED (cancel_order_route(o, u) /\ orders'[o].payment_status = ps)
SameStock(o, u) ==
    \A stk \in [Products -> 0..MaxStock] :
        ENABLED (cancel_order(o, u) /\ stock' = stk)
            <=> ENABLED (cancel_order_route(o, u) /\ stock' = stk)

\* C37: in every reachable state and for every stored order and user, the
\* two cancel implementations accept or reject the request alike and leave
\* the same order_status, payment_status and stock.
C37_CancelImplementationsAgree ==
    \A o \in OrderIds, u \in Users :
        /\ SameAcceptance(o, u)
        /\ SameOrderStatus(o, u)
        /\ SameStock(o, u)
        /\ SamePaymentStatus(o, u)

\* the rows of user u's cart for product p
CartRows(u, p) == {i \in 1..Len(cart[u]) : cart[u][i].product = p}

\* C38: in every reachable state, concurrent add_to_cart requests included,
\* a user's cart has at most one line for any product.
C38_OneLinePerProduct ==
    \A u \in Users, p \in Products : Cardinality(CartRows(u, p)) <= 1

====
